---- MODULE Spec2Model ----
(***************************************************************************)
(* Model of CarlaLaneDetection (src/carla_lane_detection.py): the session  *)
(* controller that sets a CARLA world to synchronous mode, spawns a        *)
(* vehicle and a camera, drives the world one tick per loop iteration,     *)
(* receives processed frames from the camera callback (a second thread),   *)
(* and tears everything down in cleanup().                                 *)
(*                                                                         *)
(* The main thread is a program counter `pc` over the statements of        *)
(* carla_setup(), run() and cleanup(); the camera callback is one action   *)
(* that can fire between any two main-thread steps.  Every call into a     *)
(* collaborator (simulator, pygame, validator, video writer) ends in one   *)
(* of three outcomes: it returns ("ok"), it raises an Exception ("error"), *)
(* or a KeyboardInterrupt is delivered while it runs ("interrupt").        *)
(* Simulated time is counted in milliseconds.                              *)
(***************************************************************************)
EXTENDS Integers, Naturals, Sequences, FiniteSets, TLC

\* ---------------------------------------------------------------- bounds
\* number of world.tick() invocations explored by the full specification
MaxTicks == 3
\* camera images produced by the simulator and not yet handed to the callback
MaxPending == 2
\* pygame events returned by one pygame.event.get()
MaxEvents == 2
\* length of the validator's log list
MaxLogs == 2
\* simulated time (ms) at which the scenario specification stops ticking
ScenarioEnd == 6000
\* simulated time (ms) of a world that is already close to the threshold
LateStart == 4950

\* ------------------------------------------------------ program constants
\* settings.fixed_delta_seconds = 1.0 / 20, in milliseconds
FixedDelta == 50
\* if self.sim_time > 5.0, in milliseconds
ValidationAfter == 5000

Outcomes == {"ok", "error", "interrupt"}
Failures == {"error", "interrupt"}
EventKinds == {"QUIT", "ESCAPE", "SPACE", "OTHER"}
Keys == {"w", "s", "a", "d"}

\* Python's None, for slots that otherwise hold a record
None == [tag |-> "None"]
\* the dict built by camera_callback from one camera image
ProcessedFrame(n) == [result |-> n, gray |-> n, edges |-> n, masked |-> n]
\* the locals of update_display before they are assigned
NoLocals == [result |-> 0, gray |-> 0, edges |-> 0, masked |-> 0]

VARIABLES
    \* --- configuration (constructor arguments)
    validation_mode, enable_recording,
    \* --- main thread
    pc,                 \* statement the main thread is at
    result,             \* how run() ended: "running", "setup_failed", "returned", "raised"
    exc,                \* exception in flight while the finally clause runs
    \* --- fields of CarlaLaneDetection
    client, world, vehicle, camera, actors, running, video_out,
    current_frame, val, sim_time,
    \* --- locals of run(), update_display() and cleanup()
    autopilot_enabled, shown, cl_i,
    \* --- simulator state
    settings, tm_sync, simElapsed, alive, vehAutopilot, listening, pending,
    \* --- history of calls made on the collaborators
    ticks,              \* world.tick() invocations
    iters,              \* loop iterations that ran to the end of the body
    valCalls,           \* validator.run_validation invocations
    valReturn,          \* what the last run_validation returned
    calledAt,           \* sim_time values at which run_validation was invoked
    lastWrite,          \* frame most recently stored by the callback
    writes,             \* number of stores by the callback
    applied,            \* control passed to apply_control in this iteration
    held,               \* keys get_pressed() reported in this iteration
    presented,          \* pygame.display.flip() was reached in this iteration
    recorded,           \* frames appended to the recording
    cleanupCalls,       \* cleanup() invocations
    teardownLog,        \* calls cleanup() made, in order
    interrupted,        \* a KeyboardInterrupt was delivered inside run()
    loopEntered,        \* the try block of run() was entered
    failedAt            \* setup statement that failed

cfgVars  == <<validation_mode, enable_recording>>
mainVars == <<pc, result, exc>>
objVars  == <<client, world, vehicle, camera, actors, running, video_out,
              current_frame, val, sim_time>>
locVars  == <<autopilot_enabled, shown, cl_i>>
simVars  == <<settings, tm_sync, simElapsed, alive, vehAutopilot, listening, pending>>
histVars == <<ticks, iters, valCalls, valReturn, calledAt, lastWrite, writes, applied,
              held, presented,
              recorded, cleanupCalls, teardownLog, interrupted, loopEntered, failedAt>>
vars == <<cfgVars, mainVars, objVars, locVars, simVars, histVars>>

\* world settings of a free-running simulator
FreeRunning == [synchronous_mode |-> FALSE, fixed_delta_seconds |-> <<>>]
\* world settings written by carla_setup
LockStep == [synchronous_mode |-> TRUE, fixed_delta_seconds |-> <<FixedDelta>>]

\* validation fields as __init__ leaves them
InitialVal == [frame_id |-> 0, capture_times |-> 0, logs |-> <<>>]

\* state after CarlaLaneDetection(...) returned and before run() is called
InitWith(startTimes) ==
    /\ validation_mode \in BOOLEAN
    /\ enable_recording \in BOOLEAN
    /\ pc = "su_connect"
    /\ result = "running"
    /\ exc = "none"
    /\ client = FALSE
    /\ world = FALSE
    /\ vehicle = FALSE
    /\ camera = FALSE
    /\ actors = <<>>
    /\ running = FALSE
    /\ video_out = IF enable_recording THEN "open" ELSE "none"
    /\ current_frame = None
    /\ val = IF validation_mode THEN InitialVal ELSE None
    /\ sim_time = <<>>
    /\ autopilot_enabled = FALSE
    /\ shown = NoLocals
    /\ cl_i = 1
    /\ settings = FreeRunning
    /\ tm_sync = FALSE
    /\ simElapsed \in startTimes
    /\ alive = {}
    /\ vehAutopilot = FALSE
    /\ listening = FALSE
    /\ pending = <<>>
    /\ ticks = 0
    /\ iters = 0
    /\ valCalls = 0
    /\ valReturn = None
    /\ calledAt = {}
    /\ lastWrite = None
    /\ writes = 0
    /\ applied = None
    /\ held = {}
    /\ presented = FALSE
    /\ recorded = 0
    /\ cleanupCalls = 0
    /\ teardownLog = <<>>
    /\ interrupted = FALSE
    /\ loopEntered = FALSE
    /\ failedAt = "none"

Init == InitWith({0, LateStart})

\* ------------------------------------------------------------ carla_setup
\* `except Exception` of carla_setup: an Exception makes carla_setup return
\* False and run() return at once; a KeyboardInterrupt is not an Exception
\* and leaves run() as it is raised.  Neither path calls cleanup().
SetupAbort(o, stage) ==
    /\ pc' = "done"
    /\ result' = IF o = "error" THEN "setup_failed" ELSE "raised"
    /\ failedAt' = stage
    /\ interrupted' = (o = "interrupt")
    /\ exc' = exc

SetupNext(stage) ==
    /\ pc' = stage
    /\ UNCHANGED <<result, exc, failedAt, interrupted>>

histSetup == <<ticks, iters, valCalls, valReturn, calledAt, lastWrite, writes, applied,
              held, presented,
               recorded, cleanupCalls, teardownLog, loopEntered>>

\* lines 62-65: Client(), set_timeout, load_world, get_blueprint_library
SetupConnect(o) ==
    /\ pc = "su_connect"
    /\ IF o = "ok"
       THEN /\ client' = TRUE /\ world' = TRUE
            /\ SetupNext("su_settings")
       ELSE /\ client' \in BOOLEAN /\ world' = FALSE
            /\ SetupAbort(o, "connect")
    /\ UNCHANGED <<cfgVars, vehicle, camera, actors, running, video_out,
                   current_frame, val, sim_time, locVars, simVars, histSetup>>

\* lines 68-71: get_settings, apply_settings(synchronous, 1/20 s); a failing
\* apply_settings may or may not have reached the server
SetupSettings(o) ==
    /\ pc = "su_settings"
    /\ IF o = "ok"
       THEN /\ settings' = LockStep
            /\ SetupNext("su_tm")
       ELSE /\ settings' \in {settings, LockStep}
            /\ SetupAbort(o, "settings")
    /\ UNCHANGED <<cfgVars, objVars, locVars, tm_sync, simElapsed, alive,
                   vehAutopilot, listening, pending, histSetup>>

\* lines 74-76: traffic_manager.set_synchronous_mode(True), get_settings
SetupTrafficManager(o) ==
    /\ pc = "su_tm"
    /\ IF o = "ok"
       THEN /\ tm_sync' = TRUE
            /\ SetupNext("su_vehicle")
       ELSE /\ tm_sync' \in BOOLEAN
            /\ SetupAbort(o, "traffic_manager")
    /\ UNCHANGED <<cfgVars, objVars, locVars, settings, simElapsed, alive,
                   vehAutopilot, listening, pending, histSetup>>

\* lines 79-81: self.vehicle = world.spawn_actor(vehicle_bp, ...)
SetupSpawnVehicle(o) ==
    /\ pc = "su_vehicle"
    /\ IF o = "ok"
       THEN /\ vehicle' = TRUE
            /\ alive' = alive \cup {"vehicle"}
            /\ SetupNext("su_register_vehicle")
       ELSE /\ UNCHANGED <<vehicle, alive>>
            /\ SetupAbort(o, "spawn_vehicle")
    /\ UNCHANGED <<cfgVars, client, world, camera, actors, running, video_out,
                   current_frame, val, sim_time, locVars, settings, tm_sync,
                   simElapsed, vehAutopilot, listening, pending, histSetup>>

\* lines 82-83: vehicle.set_autopilot(True); self.actors.append(self.vehicle)
SetupRegisterVehicle(o) ==
    /\ pc = "su_register_vehicle"
    /\ IF o = "ok"
       THEN /\ vehAutopilot' = TRUE
            /\ actors' = Append(actors, "vehicle")
            /\ SetupNext("su_camera")
       ELSE /\ UNCHANGED <<vehAutopilot, actors>>
            /\ SetupAbort(o, "register_vehicle")
    /\ UNCHANGED <<cfgVars, client, world, vehicle, camera, running, video_out,
                   current_frame, val, sim_time, locVars, settings, tm_sync,
                   simElapsed, alive, listening, pending, histSetup>>

\* lines 86-102: self.camera = world.spawn_actor(camera_bp, ..., attach_to=vehicle);
\* self.actors.append(self.camera)
SetupSpawnCamera(o) ==
    /\ pc = "su_camera"
    /\ IF o = "ok"
       THEN /\ camera' = TRUE
            /\ alive' = alive \cup {"camera"}
            /\ actors' = Append(actors, "camera")
            /\ SetupNext("su_listen")
       ELSE /\ UNCHANGED <<camera, alive, actors>>
            /\ SetupAbort(o, "spawn_camera")
    /\ UNCHANGED <<cfgVars, client, world, vehicle, running, video_out,
                   current_frame, val, sim_time, locVars, settings, tm_sync,
                   simElapsed, vehAutopilot, listening, pending, histSetup>>

\* line 105: self.camera.listen(callback)
SetupListen(o) ==
    /\ pc = "su_listen"
    /\ IF o = "ok"
       THEN /\ listening' = TRUE
            /\ SetupNext("su_validator")
       ELSE /\ UNCHANGED listening
            /\ SetupAbort(o, "listen")
    /\ UNCHANGED <<cfgVars, objVars, locVars, settings, tm_sync, simElapsed,
                   alive, vehAutopilot, pending, histSetup>>

\* lines 107-112: LaneValidator(...), sim_time = snapshot elapsed seconds,
\* return True
SetupValidator(o) ==
    /\ pc = "su_validator"
    /\ IF o = "ok"
       THEN /\ sim_time' = IF validation_mode THEN <<simElapsed>> ELSE sim_time
            /\ SetupNext("run_start")
       ELSE /\ UNCHANGED sim_time
            /\ SetupAbort(o, "validator")
    /\ UNCHANGED <<cfgVars, client, world, vehicle, camera, actors, running,
                   video_out, current_frame, val, locVars, simVars, histSetup>>

\* ------------------------------------------------------------------ run
histRun == <<ticks, iters, valCalls, valReturn, calledAt, lastWrite, writes, applied,
              held, presented,
             recorded, cleanupCalls, teardownLog, failedAt>>

\* lines 191-201: running = True, vehicle.set_autopilot(True),
\* get_settings (for the banner), autopilot_enabled = True.  These statements
\* are outside the try block: anything raised here leaves run() directly.
RunStart(o) ==
    /\ pc = "run_start"
    /\ running' = TRUE
    /\ IF o = "ok"
       THEN /\ vehAutopilot' = TRUE
            /\ autopilot_enabled' = TRUE
            /\ pc' = "loop_head"
            /\ loopEntered' = TRUE
            /\ UNCHANGED <<result, interrupted>>
       ELSE /\ vehAutopilot' \in {vehAutopilot, TRUE}
            /\ pc' = "done"
            /\ result' = "raised"
            /\ interrupted' = (o = "interrupt")
            /\ UNCHANGED <<autopilot_enabled, loopEntered>>
    /\ UNCHANGED <<cfgVars, exc, client, world, vehicle, camera, actors, video_out,
                   current_frame, val, sim_time, shown, cl_i, settings, tm_sync,
                   simElapsed, alive, listening, pending, histRun>>

\* HandlerFor with cleanup() called from the KeyboardInterrupt handler instead
\* of a finally clause
HandlerForInterruptOnly(o) == IF o = "interrupt" THEN "cleanup" ELSE "done"

\* lines 203, 258-261: where control goes when a statement of the try block
\* raises; the finally clause runs cleanup() for every kind of exception
HandlerFor(o) == "cleanup"

\* a statement of the loop body raised o: KeyboardInterrupt is caught (line
\* 258), any other exception stays in flight while the finally clause runs
Raise(o) ==
    /\ pc' = HandlerFor(o)
    /\ exc' = IF o = "error" /\ HandlerFor(o) = "cleanup" THEN "error" ELSE "none"
    /\ result' = IF HandlerFor(o) = "done" THEN "raised" ELSE result
    /\ interrupted' = (interrupted \/ o = "interrupt")

\* StepAfter with a second world.tick() in every iteration
StepAfterTickTwice(p) ==
    CASE p = "tick"     -> IF ticks = iters THEN "tick" ELSE "validate"
      [] p = "validate" -> "events"
      [] p = "events"   -> "control"
      [] p = "control"  -> "display"
      [] p = "display"  -> "limiter"
      [] p = "limiter"  -> "loop_head"

\* order of the statements of one loop iteration, lines 207-256
StepAfter(p) ==
    CASE p = "tick"     -> "validate"
      [] p = "validate" -> "events"
      [] p = "events"   -> "control"
      [] p = "control"  -> "display"
      [] p = "display"  -> "limiter"
      [] p = "limiter"  -> "loop_head"

Proceed(p) ==
    /\ pc' = StepAfter(p)
    /\ UNCHANGED <<result, exc, interrupted>>

\* LoopContinues of a loop that never tests the flag
LoopContinuesAlways(r) == TRUE

\* line 205: the condition of `while self.running`
LoopContinues(r) == r

\* line 205: while self.running
LoopHead ==
    /\ pc = "loop_head"
    /\ pc' = IF LoopContinues(running) THEN "tick" ELSE "cleanup"
    /\ UNCHANGED <<cfgVars, result, exc, objVars, locVars, simVars, histVars>>

\* the simulator's world.tick(): one more step of fixed_delta_seconds
Advance(t) == t + FixedDelta

\* line 207: self.world.tick().  A tick that returns has advanced the world by
\* one step and made the camera produce one image for its listener.
TickStep(o) ==
    /\ pc = "tick"
    /\ Len(pending) < MaxPending
    /\ ticks' = ticks + 1
    /\ applied' = None
    /\ held' = {}
    /\ presented' = FALSE
    /\ IF o = "ok"
       THEN /\ simElapsed' = Advance(simElapsed)
            /\ pending' = IF listening /\ "camera" \in alive
                          THEN Append(pending, ticks + 1) ELSE pending
            /\ Proceed("tick")
       ELSE /\ UNCHANGED <<simElapsed, pending>>
            /\ Raise(o)
    /\ UNCHANGED <<cfgVars, objVars, locVars, settings, tm_sync, alive, vehAutopilot,
                   listening, iters, valCalls, valReturn, calledAt, lastWrite, writes,
                   recorded, cleanupCalls, teardownLog, loopEntered, failedAt>>

Tick(o) == ticks < MaxTicks /\ TickStep(o)

\* ValidationDue with the comparison written >=
ValidationDueInclusive(t) == t >= ValidationAfter

\* line 211: if self.sim_time > 5.0
ValidationDue(t) == t > ValidationAfter

\* Adopt with frame_id counted by the loop instead of taken from the validator
AdoptCounting(old, ret) == [ret EXCEPT !.frame_id = old.frame_id + 1]

\* line 212: self.frame_id, self.capture_times, self.logs = <returned tuple>
Adopt(old, ret) == ret

\* LaneValidator.run_validation: returns the counters it was given, or the
\* counters with one more frame logged at sim time t
ValidatorReturns(v, t) ==
    {v} \cup
    IF Len(v.logs) < MaxLogs
    THEN {[frame_id |-> v.frame_id + 1, capture_times |-> t,
           logs |-> Append(v.logs, v.frame_id + 1)]}
    ELSE {}

\* lines 209-212: read the snapshot's elapsed time; past the threshold, call
\* the validator and adopt what it returns
Validate(o) ==
    /\ pc = "validate"
    /\ IF ~validation_mode
       THEN /\ o # "error"
            /\ IF o = "ok" THEN Proceed("validate") ELSE Raise(o)
            /\ UNCHANGED <<sim_time, val, valCalls, valReturn, calledAt>>
       ELSE \/ \* get_snapshot() did not return
               /\ o \in Failures
               /\ Raise(o)
               /\ UNCHANGED <<sim_time, val, valCalls, valReturn, calledAt>>
            \/ \* not yet due
               /\ o = "ok"
               /\ ~ValidationDue(simElapsed)
               /\ sim_time' = <<simElapsed>>
               /\ Proceed("validate")
               /\ UNCHANGED <<val, valCalls, valReturn, calledAt>>
            \/ \* due: run_validation is called
               /\ ValidationDue(simElapsed)
               /\ sim_time' = <<simElapsed>>
               /\ valCalls' = valCalls + 1
               /\ calledAt' = calledAt \cup {simElapsed}
               /\ IF o = "ok"
                  THEN \E ret \in ValidatorReturns(val, simElapsed) :
                          /\ val' = Adopt(val, ret)
                          /\ valReturn' = ret
                          /\ Proceed("validate")
                  ELSE /\ UNCHANGED <<val, valReturn>>
                       /\ Raise(o)
    /\ UNCHANGED <<cfgVars, client, world, vehicle, camera, actors, running, video_out,
                   current_frame, locVars, simVars, ticks, iters, lastWrite, writes,
                   applied, held, presented, recorded, cleanupCalls, teardownLog, loopEntered, failedAt>>

\* sequences of at most MaxEvents pygame events
EventSeqs == UNION {[1..n -> EventKinds] : n \in 0..MaxEvents}

\* ToggleCommand with the call made before the flag is flipped
ToggleCommandStale(flag) == ~flag

\* line 225: self.vehicle.set_autopilot(autopilot_enabled), given the flag as
\* line 224 has just set it: the state the vehicle is put in
ToggleCommand(flag) == flag

\* lines 216-227: the event loop from event i on.  st holds running,
\* autopilot_enabled and the vehicle's autopilot; failAt is the index of the
\* event whose set_autopilot call does not return (0: none).
RECURSIVE HandleEvents(_, _, _, _)
HandleEvents(evs, i, failAt, st) ==
    IF i > Len(evs) THEN st
    ELSE IF evs[i] \in {"QUIT", "ESCAPE"}
         THEN HandleEvents(evs, i + 1, failAt, [st EXCEPT !.running = FALSE])
    ELSE IF evs[i] = "SPACE"
         THEN IF i = failAt
              THEN [st EXCEPT !.autopilot_enabled = ~st.autopilot_enabled,
                              !.raised = TRUE]
              ELSE HandleEvents(evs, i + 1, failAt,
                       [st EXCEPT !.autopilot_enabled = ~st.autopilot_enabled,
                                  !.vehAutopilot = ToggleCommand(~st.autopilot_enabled)])
    ELSE HandleEvents(evs, i + 1, failAt, st)

\* lines 216-227: for event in pygame.event.get(): ...
Events(o) ==
    /\ pc = "events"
    /\ \E evs \in EventSeqs :
       \E failAt \in 0..Len(evs) :
          /\ (o = "ok") = (failAt = 0)
          /\ failAt > 0 => evs[failAt] = "SPACE"
          /\ LET st == HandleEvents(evs, 1, failAt,
                          [running |-> running,
                           autopilot_enabled |-> autopilot_enabled,
                           vehAutopilot |-> vehAutopilot, raised |-> FALSE])
             IN /\ running' = st.running
                /\ autopilot_enabled' = st.autopilot_enabled
                /\ vehAutopilot' = st.vehAutopilot
                /\ IF st.raised THEN Raise(o) ELSE Proceed("events")
    /\ UNCHANGED <<cfgVars, client, world, vehicle, camera, actors, video_out,
                   current_frame, val, sim_time, shown, cl_i, settings, tm_sync,
                   simElapsed, alive, listening, pending, histRun, loopEntered>>

\* ManualControlDue without the autopilot test
ManualControlAlways(ap) == TRUE

\* line 230: if not autopilot_enabled
ManualControlDue(ap) == ~ap

\* ManualControl with the left key tested last
ManualControlLeftWins(keys) ==
    [throttle |-> IF "w" \in keys THEN 10 ELSE 0,
     brake    |-> IF "s" \in keys THEN 10 ELSE 0,
     steer    |-> IF "a" \in keys THEN 3 ELSE IF "d" \in keys THEN -3 ELSE 0]

\* lines 232-249: the VehicleControl built from the held keys; throttle,
\* brake and steer in tenths
ManualControl(keys) ==
    [throttle |-> IF "w" \in keys THEN 10 ELSE 0,
     brake    |-> IF "s" \in keys THEN 10 ELSE 0,
     steer    |-> IF "d" \in keys THEN -3 ELSE IF "a" \in keys THEN 3 ELSE 0]

\* lines 230-250: manual control when autopilot is disabled
Control(o) ==
    /\ pc = "control"
    /\ IF ManualControlDue(autopilot_enabled)
       THEN \E keys \in SUBSET Keys :
               IF o = "ok"
               THEN applied' = ManualControl(keys) /\ held' = keys /\ Proceed("control")
               ELSE applied' = applied /\ held' = held /\ Raise(o)
       ELSE /\ o = "ok"
            /\ applied' = applied
            /\ held' = held
            /\ Proceed("control")
    /\ UNCHANGED <<cfgVars, objVars, locVars, simVars, ticks, iters, valCalls, valReturn,
                   calledAt, lastWrite, writes, presented, recorded, cleanupCalls,
                   teardownLog, loopEntered, failedAt>>

\* lines 145-146: if self.current_frame is None: return
DisplayCheck ==
    /\ pc = "display"
    /\ IF current_frame = None
       THEN Proceed("display")
       ELSE pc' = "disp_result" /\ UNCHANGED <<result, exc, interrupted>>
    /\ UNCHANGED <<cfgVars, objVars, locVars, simVars, histRun, loopEntered>>

\* lines 149-152: result = self.current_frame['result'] ... masked =
\* self.current_frame['masked']; each statement reads the field anew
DisplayRead ==
    /\ pc \in {"disp_result", "disp_gray", "disp_edges", "disp_masked"}
    /\ shown' = CASE pc = "disp_result" -> [shown EXCEPT !.result = current_frame.result]
                  [] pc = "disp_gray"   -> [shown EXCEPT !.gray = current_frame.gray]
                  [] pc = "disp_edges"  -> [shown EXCEPT !.edges = current_frame.edges]
                  [] pc = "disp_masked" -> [shown EXCEPT !.masked = current_frame.masked]
    /\ pc' = CASE pc = "disp_result" -> "disp_gray"
               [] pc = "disp_gray"   -> "disp_edges"
               [] pc = "disp_edges"  -> "disp_masked"
               [] pc = "disp_masked" -> "disp_draw"
    /\ UNCHANGED <<cfgVars, result, exc, objVars, autopilot_enabled, cl_i, simVars,
                   histVars>>

\* RenderCaught without the try/except of update_display
RenderCaughtNothing(o) == FALSE

\* lines 148, 182-183: `except Exception` around the rendering statements
RenderCaught(o) == o = "error"

\* lines 155-183: blit the result, append it to the recording, draw the three
\* miniatures, flip; an Exception is caught and printed
DisplayDraw(o) ==
    /\ pc = "disp_draw"
    /\ shown' = NoLocals
    /\ recorded' = IF o = "ok" /\ enable_recording /\ video_out # "none"
                   THEN recorded + 1 ELSE recorded
    /\ presented' = (o = "ok")
    /\ IF o = "ok" \/ RenderCaught(o) THEN Proceed("display") ELSE Raise(o)
    /\ UNCHANGED <<cfgVars, objVars, autopilot_enabled, cl_i, simVars, ticks, iters,
                   valCalls, valReturn, calledAt, lastWrite, writes, applied, held,
                   cleanupCalls, teardownLog, loopEntered, failedAt>>

\* line 256: clock.tick(20); the iteration is complete
Limiter(o) ==
    /\ pc = "limiter"
    /\ o # "error"
    /\ IF o = "ok"
       THEN iters' = iters + 1 /\ Proceed("limiter")
       ELSE iters' = iters /\ Raise(o)
    /\ UNCHANGED <<cfgVars, objVars, locVars, simVars, ticks, valCalls, valReturn,
                   calledAt, lastWrite, writes, applied, held, presented, recorded, cleanupCalls,
                   teardownLog, loopEntered, failedAt>>

\* --------------------------------------------------------- camera_callback
\* Store that keeps the frame already in the slot
StoreIfEmpty(old, frame) == IF old = None THEN frame ELSE old

\* lines 133-138: self.current_frame = {...}; the slot holds the new frame
Store(old, frame) == frame

\* OnCallbackError that clears the slot
OnCallbackErrorClears(slot) == None

\* lines 140-141: the except clause only prints; the slot is as it was
OnCallbackError(slot) == slot

\* lines 118-141: decode the image, run the lane detector, store the result;
\* an Exception is caught and printed
Callback(o) ==
    /\ pending # <<>>
    /\ o # "interrupt"
    /\ pending' = Tail(pending)
    /\ IF o = "ok"
       THEN /\ current_frame' = Store(current_frame, ProcessedFrame(Head(pending)))
            /\ lastWrite' = ProcessedFrame(Head(pending))
            /\ writes' = writes + 1
       ELSE /\ current_frame' = OnCallbackError(current_frame)
            /\ UNCHANGED <<lastWrite, writes>>
    /\ UNCHANGED <<cfgVars, mainVars, client, world, vehicle, camera, actors, running,
                   video_out, val, sim_time, locVars, settings, tm_sync, simElapsed,
                   alive, vehAutopilot, listening, ticks, iters, valCalls, valReturn,
                   calledAt, applied, held, presented, recorded, cleanupCalls, teardownLog, interrupted,
                   loopEntered, failedAt>>

\* ---------------------------------------------------------------- cleanup
histCleanup == <<ticks, iters, valCalls, valReturn, calledAt, lastWrite, writes,
                 applied, held, presented, recorded, loopEntered, failedAt>>

Logged(op, target, o) == Append(teardownLog, [op |-> op, target |-> target, ok |-> (o = "ok")])

\* an exception leaves cleanup(), and with it the finally clause and run()
CleanupRaise(o) ==
    /\ pc' = "done"
    /\ result' = "raised"
    /\ exc' = o

\* run() ends after the finally clause: the exception in flight is re-raised
Finish ==
    /\ pc' = "done"
    /\ result' = IF exc = "error" THEN "raised" ELSE "returned"
    /\ exc' = exc

\* CleanupFirst of a cleanup() that goes straight to the actors
CleanupFirstDestroy == "cl_destroy"

\* lines 268-269: the first call cleanup() makes is on the vehicle's autopilot
CleanupFirst == "cl_autopilot"

\* lines 261, 265-266: cleanup() is entered, self.running = False
CleanupStart ==
    /\ pc = "cleanup"
    /\ cleanupCalls' = cleanupCalls + 1
    /\ running' = FALSE
    /\ pc' = CleanupFirst
    /\ UNCHANGED <<cfgVars, result, exc, client, world, vehicle, camera, actors,
                   video_out, current_frame, val, sim_time, locVars, simVars,
                   teardownLog, interrupted, histCleanup>>

\* lines 268-269: if self.vehicle: self.vehicle.set_autopilot(False)
CleanupAutopilot(o) ==
    /\ pc = "cl_autopilot"
    /\ cl_i' = 1
    /\ IF ~vehicle
       THEN /\ o = "ok"
            /\ pc' = "cl_destroy"
            /\ UNCHANGED <<result, exc, vehAutopilot, teardownLog>>
       ELSE /\ teardownLog' = Logged("set_autopilot", "vehicle", o)
            /\ IF o = "ok"
               THEN /\ vehAutopilot' = FALSE
                    /\ pc' = "cl_destroy"
                    /\ UNCHANGED <<result, exc>>
               ELSE /\ vehAutopilot' \in {vehAutopilot, FALSE}
                    /\ CleanupRaise(o)
    /\ UNCHANGED <<cfgVars, objVars, autopilot_enabled, shown, settings, tm_sync,
                   simElapsed, alive, listening, pending, cleanupCalls, interrupted,
                   histCleanup>>

\* line 272: for actor in self.actors: the order in which actors are visited
TeardownOrder(as) == as

\* AfterDestroy without the try/except around destroy()
AfterDestroyUnguarded(o) == "raise"

\* lines 274-277: what follows a destroy() that raised: `except: pass`, the
\* loop goes on with the next actor
AfterDestroy(o) == "next_actor"

\* lines 272-277: one pass of the loop over the actors (or its end)
CleanupDestroy(o) ==
    /\ pc = "cl_destroy"
    /\ IF cl_i > Len(actors)
       THEN /\ o = "ok"
            /\ pc' = "cl_video"
            /\ UNCHANGED <<result, exc, cl_i, alive, teardownLog>>
       ELSE LET actor == TeardownOrder(actors)[cl_i] IN
            /\ teardownLog' = Logged("destroy", actor, o)
            /\ alive' = IF o = "ok" THEN alive \ {actor} ELSE alive
            /\ IF o = "ok" \/ AfterDestroy(o) = "next_actor"
               THEN /\ cl_i' = cl_i + 1
                    /\ UNCHANGED <<pc, result, exc>>
               ELSE /\ cl_i' = cl_i
                    /\ CleanupRaise(o)
    /\ UNCHANGED <<cfgVars, objVars, autopilot_enabled, shown, settings, tm_sync,
                   simElapsed, vehAutopilot, listening, pending, cleanupCalls,
                   interrupted, histCleanup>>

\* lines 279-280: if self.video_out: self.video_out.release()
CleanupVideo(o) ==
    /\ pc = "cl_video"
    /\ IF video_out = "none"
       THEN /\ o = "ok"
            /\ pc' = "cl_restore"
            /\ UNCHANGED <<result, exc, video_out, teardownLog>>
       ELSE /\ teardownLog' = Logged("release", "video_out", o)
            /\ IF o = "ok"
               THEN /\ video_out' = "released"
                    /\ pc' = "cl_restore"
                    /\ UNCHANGED <<result, exc>>
               ELSE /\ UNCHANGED video_out
                    /\ CleanupRaise(o)
    /\ UNCHANGED <<cfgVars, client, world, vehicle, camera, actors, running,
                   current_frame, val, sim_time, locVars, simVars, cleanupCalls,
                   interrupted, histCleanup>>

\* lines 283-290: if self.world: get_settings, apply_settings(asynchronous,
\* no fixed delta), with `except: pass`
CleanupRestore(o) ==
    /\ pc = "cl_restore"
    /\ IF ~world
       THEN /\ o = "ok"
            /\ UNCHANGED <<settings, teardownLog>>
       ELSE /\ teardownLog' = Logged("apply_settings", "world", o)
            /\ IF o = "ok"
               THEN settings' = FreeRunning
               ELSE settings' \in {settings, FreeRunning}
    /\ pc' = "cl_quit"
    /\ UNCHANGED <<cfgVars, result, exc, objVars, locVars, tm_sync, simElapsed, alive,
                   vehAutopilot, listening, pending, cleanupCalls, interrupted,
                   histCleanup>>

\* lines 292-293, 261: pygame.quit(); cleanup() returns and run() ends
CleanupQuit ==
    /\ pc = "cl_quit"
    /\ Finish
    /\ UNCHANGED <<cfgVars, objVars, locVars, simVars, histVars>>

Next ==
    \/ \E o \in Outcomes : SetupConnect(o)
    \/ \E o \in Outcomes : SetupSettings(o)
    \/ \E o \in Outcomes : SetupTrafficManager(o)
    \/ \E o \in Outcomes : SetupSpawnVehicle(o)
    \/ \E o \in Outcomes : SetupRegisterVehicle(o)
    \/ \E o \in Outcomes : SetupSpawnCamera(o)
    \/ \E o \in Outcomes : SetupListen(o)
    \/ \E o \in Outcomes : SetupValidator(o)
    \/ \E o \in Outcomes : RunStart(o)
    \/ LoopHead
    \/ \E o \in Outcomes : Tick(o)
    \/ \E o \in Outcomes : Validate(o)
    \/ \E o \in Outcomes : Events(o)
    \/ \E o \in Outcomes : Control(o)
    \/ DisplayCheck
    \/ DisplayRead
    \/ \E o \in Outcomes : DisplayDraw(o)
    \/ \E o \in Outcomes : Limiter(o)
    \/ \E o \in Outcomes : Callback(o)
    \/ CleanupStart
    \/ \E o \in Outcomes : CleanupAutopilot(o)
    \/ \E o \in Outcomes : CleanupDestroy(o)
    \/ \E o \in Outcomes : CleanupVideo(o)
    \/ \E o \in Outcomes : CleanupRestore(o)
    \/ CleanupQuit

Spec == Init /\ [][Next]_vars

\* ------------------------------------------------------------ the scenario
\* validation_mode=True, simulated time 0 -> 6.0 s, no collaborator fails and
\* the image of a tick reaches the callback before the next tick is issued
InitScenario ==
    /\ InitWith({0})
    /\ validation_mode

ScenarioTick == simElapsed < ScenarioEnd /\ pending = <<>> /\ TickStep("ok")

NextScenario ==
    \/ SetupConnect("ok")
    \/ SetupSettings("ok")
    \/ SetupTrafficManager("ok")
    \/ SetupSpawnVehicle("ok")
    \/ SetupRegisterVehicle("ok")
    \/ SetupSpawnCamera("ok")
    \/ SetupListen("ok")
    \/ SetupValidator("ok")
    \/ RunStart("ok")
    \/ LoopHead
    \/ ScenarioTick
    \/ Validate("ok")
    \/ Events("ok")
    \/ Control("ok")
    \/ DisplayCheck
    \/ DisplayRead
    \/ DisplayDraw("ok")
    \/ Limiter("ok")
    \/ Callback("ok")
    \/ CleanupStart
    \/ CleanupAutopilot("ok")
    \/ CleanupDestroy("ok")
    \/ CleanupVideo("ok")
    \/ CleanupRestore("ok")
    \/ CleanupQuit

SpecScenario == InitScenario /\ [][NextScenario]_vars

\* ------------------------------------------------------------- properties
\* statements of the loop body after world.tick() has returned
AfterTick == {"validate", "events", "control", "display", "disp_result",
              "disp_gray", "disp_edges", "disp_masked", "disp_draw", "limiter"}
\* statements of the loop body after the validation gate
AfterValidate == AfterTick \ {"validate"}
\* statements of the loop body after the manual-control block
AfterControl == AfterValidate \ {"events", "control"}

\* C1: every completed loop iteration has issued exactly one world.tick():
\* between iterations the number of ticks equals the number of completed
\* iterations, inside an iteration it is exactly one more.
C1_OneTickPerIteration ==
    /\ pc \in {"loop_head", "tick"} => ticks = iters
    /\ pc \in AfterTick => ticks = iters + 1
    /\ ticks \in {iters, iters + 1}

C1_Witness == pc = "loop_head" /\ iters = 2 /\ ticks = 2

AllTeardownOk == \A i \in 1..Len(teardownLog) : teardownLog[i].ok

\* C2: when run() has finished, the world settings are back to
\* synchronous_mode=False and no fixed delta, (a) after a session that ran
\* and stopped normally, (b) after a session interrupted in the loop, (c)
\* after a setup that failed between the vehicle spawn and the camera spawn.
C2_SettingsRestored ==
    (/\ pc = "done"
     /\ \/ \* (a) stop flag, (b) KeyboardInterrupt in the loop: run() returns
           loopEntered /\ AllTeardownOk /\ result = "returned"
        \/ \* (c) the camera spawn raised
           failedAt = "spawn_camera" /\ result = "setup_failed")
    => settings = FreeRunning

\* C3: once the main loop has been entered, cleanup() is called exactly once
\* by the time run() returns or raises, and never more than once.
C3_CleanupOnce ==
    /\ cleanupCalls <= 1
    /\ (pc = "done" /\ loopEntered) => cleanupCalls = 1

C3_Witness ==
    /\ pc = "done" /\ loopEntered /\ exc = "error" /\ result = "raised"
    /\ cleanupCalls = 1 /\ ~interrupted

\* C4: a KeyboardInterrupt delivered anywhere in run() (setup, between setup
\* and the loop, inside the loop) makes cleanup() run before run() ends.
C4_InterruptRunsCleanup ==
    (pc = "done" /\ interrupted) => cleanupCalls >= 1

DestroyEntries == {i \in 1..Len(teardownLog) : teardownLog[i].op = "destroy"}
RegisteredAt(a) == CHOOSE k \in 1..Len(actors) : actors[k] = a

\* C5: cleanup() destroys the registered actors in reverse registration
\* order: of two destroy calls, the earlier one is on the later-registered
\* actor.
C5_ReverseOrder ==
    \A i, j \in DestroyEntries :
        i < j => RegisteredAt(teardownLog[i].target) > RegisteredAt(teardownLog[j].target)

Attempts(a) == Cardinality({i \in DestroyEntries : teardownLog[i].target = a})
Registered == {actors[k] : k \in 1..Len(actors)}

\* C6: a destroy() that raises does not end cleanup(): no actor is ever
\* destroyed twice, and once the loop over the actors has been left every
\* registered actor has had exactly one destroy attempt, whether or not the
\* attempt on another actor failed.
C6_EveryActorAttempted ==
    /\ \A a \in Registered : Attempts(a) <= 1
    /\ (DestroyEntries # {} /\ pc # "cl_destroy")
           => \A a \in Registered : Attempts(a) = 1

C6_Witness ==
    /\ pc = "done" /\ result = "returned"
    /\ \E i \in DestroyEntries : i < Len(teardownLog) /\ ~teardownLog[i].ok
                                 /\ teardownLog[i].target = actors[1]
    /\ \A a \in Registered : Attempts(a) = 1

\* simulated time read after the k-th tick of a run whose ticks all returned
TickTime(k) == simElapsed - (ticks - k) * FixedDelta
\* ticks whose validation gate has been passed
Gated == IF pc = "validate" THEN ticks - 1 ELSE ticks
\* number of ticks of a run from time 0 that end at or below the threshold
QuietTicks == ValidationAfter \div FixedDelta

\* C7: with validation_mode on, run_validation is called in an iteration
\* exactly when the elapsed time read after its tick is above 5.0 s: never
\* at or below it, once per iteration above it.  From time 0 at 20 ticks/s
\* this is no call in the first 100 ticks and one call in each later tick.
C7_ValidatorGate ==
    /\ \A t \in calledAt : t > ValidationAfter
    /\ (validation_mode /\ pc \in AfterTick \cup {"loop_head", "tick"}) =>
          /\ calledAt = {t \in {TickTime(k) : k \in 1..Gated} : t > ValidationAfter}
          /\ valCalls = Cardinality(calledAt)
          /\ simElapsed = ticks * FixedDelta =>
                valCalls = IF Gated <= QuietTicks THEN 0 ELSE Gated - QuietTicks

C7_Witness == pc = "limiter" /\ ticks = 120 /\ valCalls = 20

\* C8: frame_id, capture_times and logs change only by taking over what
\* run_validation returned, in an iteration whose elapsed time is above
\* 5.0 s; until the first call they are 0, 0.0 and the empty list.
C8_ValidationStateOnlyAdopted ==
    /\ []((validation_mode /\ valCalls = 0) => val = InitialVal)
    /\ [][val' # val =>
            /\ pc = "validate"
            /\ simElapsed > ValidationAfter
            /\ valCalls' = valCalls + 1
            /\ val' = valReturn']_vars

C8_Witness ==
    /\ validation_mode /\ val # InitialVal /\ val = valReturn
    /\ pc = "done" /\ cleanupCalls = 1

\* C9: current_frame is None until the callback's first store; afterwards it
\* is the frame of the most recent store, and it never becomes None again.
C9_LastWriteWins ==
    /\ [](writes = 0 => current_frame = None)
    /\ [](writes > 0 => current_frame # None /\ current_frame = lastWrite)
    /\ [][current_frame # None => current_frame' # None]_vars

C9_Witness ==
    /\ writes = 2 /\ current_frame = ProcessedFrame(2)
    /\ pc \in {"disp_result", "disp_gray", "disp_edges", "disp_masked"}

\* C10: apply_control is not called in an iteration whose autopilot flag is
\* on after the events were handled.
C10_NoManualControlOnAutopilot ==
    /\ []((pc \in AfterControl /\ autopilot_enabled) => applied = None)
    /\ [][(applied' # applied /\ applied' # None) => ~autopilot_enabled]_vars

C10_Witness ==
    /\ pc = "display" /\ autopilot_enabled /\ applied = None
    /\ vehAutopilot /\ ticks = 2

\* C11: with autopilot off, the control applied in an iteration is determined
\* by the held keys: throttle 1.0 iff W, brake 1.0 iff S (independently),
\* steer -0.3 if D, else 0.3 if A, else 0.0; W+A gives (1.0, 0.0, 0.3).
C11_ManualControlFromKeys ==
    applied # None =>
        /\ applied.throttle = (IF "w" \in held THEN 10 ELSE 0)
        /\ applied.brake = (IF "s" \in held THEN 10 ELSE 0)
        /\ "d" \in held => applied.steer = -3
        /\ ("a" \in held /\ "d" \notin held) => applied.steer = 3
        /\ ("a" \notin held /\ "d" \notin held) => applied.steer = 0
        /\ held = {"w", "a"} => applied = [throttle |-> 10, brake |-> 0, steer |-> 3]

C11_Witness ==
    /\ pc = "display" /\ ~autopilot_enabled
    /\ held = {"w", "s", "a", "d"}
    /\ applied = [throttle |-> 10, brake |-> 10, steer |-> -3]

\* C12: when setup fails the loop is never entered (no world.tick()) and
\* every actor spawned so far has been destroyed when run() returns.
C12_SetupFailureReleases ==
    (pc = "done" /\ result = "setup_failed") => (ticks = 0 /\ alive = {})

\* C13: at every world.tick() the world is synchronous with the 1/20 s step
\* and the traffic manager is synchronous; outside the two statements that
\* switch them, the session never goes on or ends with only one of the two
\* switched.
C13_LockStepTogether ==
    /\ pc = "tick" => (settings = LockStep /\ tm_sync)
    /\ (cleanupCalls = 0 /\ pc # "su_tm" /\ failedAt # "settings")
           => (settings.synchronous_mode = tm_sync)

AutopilotEntries == {i \in 1..Len(teardownLog) : teardownLog[i].op = "set_autopilot"}
VehicleDestroyTried ==
    \E i \in DestroyEntries : teardownLog[i].target = "vehicle"

\* C14: in cleanup() the vehicle's autopilot has been switched off before the
\* first destroy() call, and after the vehicle's destroy() call no autopilot
\* or control command reaches the vehicle.
C14_AutopilotOffBeforeDestroy ==
    /\ [](\A i \in DestroyEntries :
             /\ \E j \in AutopilotEntries : j < i /\ teardownLog[j].ok
             /\ \A j \in AutopilotEntries : j < i)
    /\ [](DestroyEntries # {} => ~vehAutopilot)
    /\ [][VehicleDestroyTried =>
             /\ vehAutopilot' = vehAutopilot
             /\ applied' = applied
             /\ AutopilotEntries' = AutopilotEntries]_vars

C14_Witness ==
    /\ pc = "done" /\ Cardinality(DestroyEntries) = 2
    /\ teardownLog[1] = [op |-> "set_autopilot", target |-> "vehicle", ok |-> TRUE]
    /\ ~vehAutopilot /\ ~autopilot_enabled

\* C15: once cleanup() has started, a failing teardown step neither keeps the
\* later steps from being attempted (every actor's destroy, the settings
\* restoration) nor raises out of cleanup().
C15_TeardownAlwaysCompletes ==
    (pc = "done" /\ cleanupCalls = 1) =>
        /\ \A a \in Registered : Attempts(a) = 1
        /\ teardownLog # <<>>
        /\ teardownLog[Len(teardownLog)].op = "apply_settings"

\* the main thread: every step but the camera callback
MainThread ==
    \/ \E o \in Outcomes : SetupConnect(o)
    \/ \E o \in Outcomes : SetupSettings(o)
    \/ \E o \in Outcomes : SetupTrafficManager(o)
    \/ \E o \in Outcomes : SetupSpawnVehicle(o)
    \/ \E o \in Outcomes : SetupRegisterVehicle(o)
    \/ \E o \in Outcomes : SetupSpawnCamera(o)
    \/ \E o \in Outcomes : SetupListen(o)
    \/ \E o \in Outcomes : SetupValidator(o)
    \/ \E o \in Outcomes : RunStart(o)
    \/ LoopHead
    \/ \E o \in Outcomes : Tick(o)
    \/ \E o \in Outcomes : Validate(o)
    \/ \E o \in Outcomes : Events(o)
    \/ \E o \in Outcomes : Control(o)
    \/ DisplayCheck
    \/ DisplayRead
    \/ \E o \in Outcomes : DisplayDraw(o)
    \/ \E o \in Outcomes : Limiter(o)
    \/ CleanupStart
    \/ \E o \in Outcomes : CleanupAutopilot(o)
    \/ \E o \in Outcomes : CleanupDestroy(o)
    \/ \E o \in Outcomes : CleanupVideo(o)
    \/ \E o \in Outcomes : CleanupRestore(o)
    \/ CleanupQuit

\* a session on a freshly loaded world
InitFair == InitWith({0})

\* the interpreter keeps running the main thread
SpecFair == InitFair /\ [][Next]_vars /\ WF_vars(MainThread)

\* C16: once a QUIT or ESCAPE event has cleared the running flag, world.tick()
\* is not invoked again, the loop head leaves the loop, and cleanup() runs.
C16_StopEndsLoop ==
    /\ [][(loopEntered /\ ~running) => ticks' = ticks]_vars
    /\ [][(pc = "loop_head" /\ ~running) => pc' \in {"loop_head", "cleanup"}]_vars
    /\ (loopEntered /\ ~running) ~> (cleanupCalls = 1)

C16_Witness ==
    /\ pc = "cl_quit" /\ exc = "none" /\ ~interrupted
    /\ ticks = 1 /\ iters = 1 /\ cleanupCalls = 1

\* a step of the callback that consumed an image without storing a frame
CallbackFailed == Len(pending') < Len(pending) /\ writes' = writes

\* C17: a callback that fails leaves current_frame as it was and touches
\* nothing of the main thread: the running flag, the position in the loop and
\* the outcome of run() are unchanged, no exception reaches the loop.
C17_CallbackFailureContained ==
    [][CallbackFailed =>
          /\ current_frame' = current_frame
          /\ running' = running
          /\ pc' = pc
          /\ result' = result
          /\ exc' = exc]_vars

C17_Witness ==
    /\ pc = "validate" /\ running /\ ticks = 3
    /\ pending = <<>> /\ writes = 1 /\ current_frame = ProcessedFrame(1)

\* C18: update_display does nothing when current_frame is None (no flip, no
\* frame recorded), and a rendering step that raises an Exception ends
\* update_display normally: the flag stays as it is and the loop goes on to
\* the frame-rate limiter.
C18_RenderNeverStops ==
    /\ [][(pc = "display" /\ current_frame = None) =>
             /\ pc' \in {"display", "limiter"}
             /\ recorded' = recorded
             /\ presented' = presented
             /\ running' = running]_vars
    /\ [][(pc = "disp_draw" /\ pc' # pc /\ ~interrupted') =>
             /\ pc' = "limiter"
             /\ running' = running
             /\ exc' = "none"
             /\ result' = "running"]_vars

C18_Witness ==
    /\ pc = "limiter" /\ running /\ enable_recording
    /\ ticks = 2 /\ recorded = 1 /\ ~presented

\* C19: the four images one update_display call draws come from one
\* ProcessedFrame, whatever the callback does meanwhile.
C19_RenderOneFrame ==
    pc = "disp_draw" =>
        /\ shown.gray = shown.result
        /\ shown.edges = shown.result
        /\ shown.masked = shown.result

InLoop == {"loop_head", "tick"} \cup AfterTick
Spaces(evs) == Cardinality({i \in 1..Len(evs) : evs[i] = "SPACE"})

\* C20: throughout the loop the vehicle's autopilot equals autopilot_enabled:
\* both are on when the loop is entered, k SPACE events flip both k times,
\* and manual control is only applied while the vehicle's autopilot is off.
C20_AutopilotInSync ==
    /\ [](pc \in InLoop => vehAutopilot = autopilot_enabled)
    /\ []((pc \in InLoop /\ applied # None) => ~vehAutopilot)
    /\ [][(pc = "run_start" /\ pc' = "loop_head") =>
             (vehAutopilot' /\ autopilot_enabled')]_vars
    /\ [](pc = "events" =>
             \A evs \in EventSeqs :
                LET st == HandleEvents(evs, 1, 0,
                              [running |-> running,
                               autopilot_enabled |-> autopilot_enabled,
                               vehAutopilot |-> vehAutopilot, raised |-> FALSE])
                IN /\ st.vehAutopilot = st.autopilot_enabled
                   /\ st.autopilot_enabled =
                         (IF Spaces(evs) % 2 = 0 THEN autopilot_enabled
                                                 ELSE ~autopilot_enabled))

C20_Witness ==
    /\ pc = "display" /\ applied # None
    /\ ~vehAutopilot /\ ~autopilot_enabled /\ ticks = 2 /\ iters = 1
====
